---- MODULE Spec2Model ----
(***************************************************************************)
(* Model of feast_spark.client.Client (python/feast_spark/client.py): the  *)
(* facade that resolves feature references, stages an in-memory entity     *)
(* table and submits jobs either to the job service (remote mode) or to    *)
(* the local pyspark launcher (local mode).                                *)
(*                                                                         *)
(* Every public method of Client is one action.  The external calls a      *)
(* method makes (registry lookups, staging, channel construction, RPCs,    *)
(* launcher calls) are recorded in call order in last.calls; the outcome   *)
(* of each external call (success or exception) is an input of the action. *)
(***************************************************************************)
EXTENDS Integers, Sequences, FiniteSets, TLC

VARIABLES
    job_service_url,           \* config option JOB_SERVICE_URL: None or Some(url)
    _job_service_stub,         \* attribute set in __init__, read by _job_service
    _job_service_service_stub, \* attribute written and returned by _job_service
    channels,                  \* number of create_grpc_channel calls so far
    uuids,                     \* number of uuid.uuid4() values drawn so far
    jobs,                      \* retrieval jobs submitted so far, in order
    staged,                    \* paths written by stage_entities_to_fs so far
    ncalls,                    \* number of Client method calls so far
    last                       \* the last method call: op, args, calls, result

vars == <<job_service_url, _job_service_stub, _job_service_service_stub,
          channels, uuids, jobs, staged, ncalls, last>>

----------------------------------------------------------------------------
(* Bounds of the model *)

MaxCalls == 2     \* Client method calls per behaviour
MaxRefs == 3      \* feature references per call of the resolver alone
MaxJobs == 1      \* job descriptors in a ListJobs response

----------------------------------------------------------------------------
(* Python values *)

None == <<>>
Some(v) == <<v>>

\* Python truthiness of an Optional[str]
Truthy(o) == o # None /\ o[1] # ""

Last(s) == s[Len(s)]

\* all sequences over S of length 0..n
SeqsUpTo(S, n) == UNION {[1..k -> S] : k \in 0..n}

\* str.split(sep) on a string held as a sequence of one-character strings
RECURSIVE split(_, _)
split(s, sep) ==
    IF \A i \in 1..Len(s) : s[i] # sep
    THEN <<s>>
    ELSE LET i == CHOOSE k \in 1..Len(s) :
                      s[k] = sep /\ \A j \in 1..(k - 1) : s[j] # sep
         IN  <<SubSeq(s, 1, i - 1)>> \o split(SubSeq(s, i + 1, Len(s)), sep)

\* os.path.join(a, b) for a relative b, paths held as sequences of tokens
path_join(a, b) ==
    IF a = <<>> THEN b
    ELSE IF Last(a) = "/" THEN a \o b
    ELSE a \o <<"/">> \o b

\* str(uuid.uuid4()): the n-th value drawn, never equal to an earlier one
uuid4(n) == ToString(n + 1)

----------------------------------------------------------------------------
(* Configuration and the feature-table registry *)

PROJECT == "proj1"                          \* self._feast.project
JOB_SERVICE_URL == <<"js:6568">>
HISTORICAL_FEATURE_OUTPUT_LOCATION == <<"out">>
HISTORICAL_FEATURE_OUTPUT_FORMAT == "parquet"
SPARK_STAGING_LOCATION == <<"stg">>

FileSource(created, url) ==
    [type |-> "FileSource", created_timestamp_column |-> created, ref |-> url]
BigQuerySource(created, table_ref) ==
    [type |-> "BigQuerySource", created_timestamp_column |-> created,
     ref |-> table_ref]
DataFrame ==
    [type |-> "DataFrame", created_timestamp_column |-> "", ref |-> <<>>]

Feature(n) == [name |-> <<n>>]

\* the feature tables the registry holds under PROJECT
Registry ==
    { [name |-> <<"f">>, features |-> <<Feature("x"), Feature("y")>>,
       batch_source |-> FileSource("created", <<"gs", "/", "f">>)],
      [name |-> <<"g">>, features |-> <<Feature("x"), Feature("y")>>,
       batch_source |-> BigQuerySource("created", <<"p1", ":", "d1", ".", "g">>)],
      [name |-> <<"h">>, features |-> <<Feature("x"), Feature("y")>>,
       batch_source |-> BigQuerySource("created", <<"p2", ":", "d2", ".", "h">>)],
      [name |-> <<"n">>, features |-> <<Feature("x"), Feature("y")>>,
       batch_source |-> FileSource("", <<"gs", "/", "n">>)] }

TableNames == {"f", "g", "h", "n", "u"}      \* "u" is not in the registry
FeatureNames == {"x", "y"}

\* the well-formed feature references "table:feature"
FeatureRefs == {<<t, ":", f>> : t \in TableNames, f \in FeatureNames}

\* self._feast.get_feature_table(name, project): a fresh definition per call
get_feature_table(name, project) ==
    IF \E ft \in Registry : ft.name = name
    THEN Some(CHOOSE ft \in Registry : ft.name = name)
    ELSE None

----------------------------------------------------------------------------
(* Results of a method *)

NoValue == [kind |-> "none", stub |-> 0, items |-> <<>>]
Returned(v) == [status |-> "returned", error |-> "", value |-> v]
Raised(e) == [status |-> "raised", error |-> e, value |-> NoValue]

Call(fn, arg) == [fn |-> fn, arg |-> arg]

----------------------------------------------------------------------------
(* Client._get_feature_tables_from_feature_refs *)

\* a grouping that merges all references of a table, adjacent or not
RECURSIVE groupby_merging(_, _)
groupby_merging(refs, acc) ==
    IF refs = <<>> THEN acc
    ELSE LET k == split(Head(refs), ":")[1]
         IN  IF \E i \in 1..Len(acc) : acc[i][1] = k
             THEN LET i == CHOOSE j \in 1..Len(acc) : acc[j][1] = k
                  IN  groupby_merging(Tail(refs),
                          [acc EXCEPT ![i][2] = Append(@, Head(refs))])
             ELSE groupby_merging(Tail(refs), Append(acc, <<k, <<Head(refs)>>>>))

\* itertools.groupby(feature_refs, lambda x: x.split(":")[0]) as a list of
\* (key, list(group)) pairs
RECURSIVE groupby(_, _)
groupby(refs, acc) ==
    IF refs = <<>> THEN acc
    ELSE LET k == split(Head(refs), ":")[1]
         IN  IF acc # <<>> /\ Last(acc)[1] = k
             THEN groupby(Tail(refs),
                      [acc EXCEPT ![Len(acc)][2] = Append(@, Head(refs))])
             ELSE groupby(Tail(refs), Append(acc, <<k, <<Head(refs)>>>>))

\* feature_names = [f.split(":")[-1] for f in grouped_feature_refs]
feature_names_of(grouped_feature_refs) ==
    [i \in 1..Len(grouped_feature_refs) |->
        Last(split(grouped_feature_refs[i], ":"))]

\* the loop body: look the table up and prune its features to the group's
prune_features(feature_table, grouped_feature_refs) ==
    LET feature_names == feature_names_of(grouped_feature_refs)
        Named(f) == \E i \in 1..Len(feature_names) : feature_names[i] = f.name
    IN  [feature_table EXCEPT !.features = SelectSeq(@, Named)]

\* the loop over the groups; stops at the first table the registry lacks
RECURSIVE resolve_groups(_, _, _, _)
resolve_groups(groups, project, feature_tables, calls) ==
    IF groups = <<>>
    THEN [calls |-> calls, error |-> "", feature_tables |-> feature_tables]
    ELSE LET g == Head(groups)
             found == get_feature_table(g[1], project)
             calls2 == Append(calls, Call("get_feature_table", g[1]))
         IN  IF found = None
             THEN [calls |-> calls2, error |-> "NotFoundError",
                   feature_tables |-> <<>>]
             ELSE resolve_groups(Tail(groups), project,
                      Append(feature_tables, prune_features(found[1], g[2])),
                      calls2)

_get_feature_tables_from_feature_refs(feature_refs, project) ==
    resolve_groups(groupby(feature_refs, <<>>), project, <<>>, <<>>)

----------------------------------------------------------------------------
(* The initial state of a Client, and the resolver on its own *)

InitLast == [op |-> "init",
             args |-> [feature_refs |-> <<>>, entity_source |-> DataFrame,
                       output_location |-> None, project |-> None,
                       fault |-> "ok"],
             calls |-> <<>>, result |-> Raised("")]

Init ==
    /\ job_service_url \in {None, Some(JOB_SERVICE_URL)}
    /\ _job_service_stub = None
    /\ _job_service_service_stub = None
    /\ channels = 0
    /\ uuids = 0
    /\ jobs = <<>>
    /\ staged = <<>>
    /\ ncalls = 0
    /\ last = InitLast

\* the caller's list of references, before the resolver has run
InitResolve ==
    /\ job_service_url = None
    /\ _job_service_stub = None
    /\ _job_service_service_stub = None
    /\ channels = 0
    /\ uuids = 0
    /\ jobs = <<>>
    /\ staged = <<>>
    /\ ncalls = 0
    /\ \E feature_refs \in SeqsUpTo(FeatureRefs, MaxRefs) :
           last = [InitLast EXCEPT !.op = "feature_refs",
                                   !.args.feature_refs = feature_refs]

Resolve ==
    /\ last.op = "feature_refs"
    /\ LET feature_refs == last.args.feature_refs
           r == _get_feature_tables_from_feature_refs(feature_refs, PROJECT)
       IN  last' = [op |-> "_get_feature_tables_from_feature_refs",
                    args |-> last.args,
                    calls |-> r.calls,
                    result |-> IF r.error = ""
                               THEN Returned([kind |-> "feature_tables",
                                              stub |-> 0,
                                              items |-> r.feature_tables])
                               ELSE Raised(r.error)]
    /\ UNCHANGED <<job_service_url, _job_service_stub,
                   _job_service_service_stub, channels, uuids, jobs,
                   staged, ncalls>>

NextResolve == Resolve

SpecResolve == InitResolve /\ [][NextResolve]_vars

----------------------------------------------------------------------------
(* C3: the resolver returns one definition per maximal contiguous run of   *)
(* references with the same table name, in run order, and each             *)
(* definition's features are the registry's features of that table, in     *)
(* registry order, restricted to the names the run asks for.               *)

\* positions at which a run starts, read off the references directly
RunStarts(refs) ==
    {i \in 1..Len(refs) : i = 1 \/ refs[i][1] # refs[i - 1][1]}

NthRunStart(refs, k) ==
    CHOOSE s \in RunStarts(refs) :
        Cardinality({t \in RunStarts(refs) : t <= s}) = k

RunEnd(refs, s) ==
    CHOOSE e \in s..Len(refs) :
        /\ \A j \in s..e : refs[j][1] = refs[s][1]
        /\ (e = Len(refs) \/ refs[e + 1][1] # refs[s][1])

ExpectedDefinition(refs, k) ==
    LET s == NthRunStart(refs, k)
        asked == {refs[j][3] : j \in s..RunEnd(refs, s)}
        decl == CHOOSE ft \in Registry : ft.name = <<refs[s][1]>>
        Asked(f) == f.name[1] \in asked
    IN  [decl EXCEPT !.features = SelectSeq(@, Asked)]

ResolverReturned ==
    /\ last.op = "_get_feature_tables_from_feature_refs"
    /\ last.result.status = "returned"

ResolverOnePerRun ==
    ResolverReturned =>
        LET refs == last.args.feature_refs
            fts == last.result.value.items
        IN  /\ Len(fts) = Cardinality(RunStarts(refs))
            /\ \A k \in 1..Len(fts) : fts[k] = ExpectedDefinition(refs, k)

\* a table named in two non-adjacent runs, and a run asking in non-registry order
ResolverOnePerRunWitness ==
    /\ ResolverReturned
    /\ last.args.feature_refs = <<<<"f", ":", "y">>, <<"g", ":", "x">>,
                                  <<"f", ":", "x">>>>
    /\ Len(last.result.value.items) = 3

----------------------------------------------------------------------------
(* Client._use_job_service and Client._job_service *)

_use_job_service_never == FALSE

\* self.config.exists(opt.JOB_SERVICE_URL)
_use_job_service == job_service_url # None

\* the fields of the Client a method reads and writes
Self == [stub |-> _job_service_stub, svc |-> _job_service_service_stub,
         channels |-> channels]

\* One read of the property.  A stub is identified by the number of the
\* channel it was built on.
_job_service(c) ==
    IF ~_use_job_service
    THEN [value |-> None, c |-> c, calls |-> <<>>]
    ELSE IF c.stub = None                     \* not self._job_service_stub
         THEN LET channel == c.channels + 1
              IN  [value |-> Some(channel),
                   c |-> [c EXCEPT !.channels = channel, !.svc = Some(channel)],
                   calls |-> <<Call("create_grpc_channel", channel)>>]
         ELSE [value |-> c.svc, c |-> c, calls |-> <<>>]

\* what a method leaves behind
Outcome(c, u, calls, result, newjobs, newstaged) ==
    [c |-> c, uuids |-> u, calls |-> calls, result |-> result,
     jobs |-> newjobs, staged |-> newstaged]

Rpc(method, stub, request) ==
    Call("rpc", [method |-> method, stub |-> stub, request |-> request])
Launch(function, args) ==
    Call("launcher", [function |-> function, args |-> args])

Handle(kind, stub) == [kind |-> kind, stub |-> stub, items |-> <<>>]

RpcErrors == {"TransportError", "Timeout"}
RpcOutcomes == {"ok"} \cup RpcErrors

----------------------------------------------------------------------------
(* Client.get_historical_features *)

\* assert all(ft.batch_source.created_timestamp_column for ft in feature_tables)
any_created_timestamp_column(feature_tables) ==
    \E i \in 1..Len(feature_tables) :
        feature_tables[i].batch_source.created_timestamp_column # ""

all_created_timestamp_column(feature_tables) ==
    \A i \in 1..Len(feature_tables) :
        feature_tables[i].batch_source.created_timestamp_column # ""

\* the output location handed to the job, and the uuids drawn after it
output_location_without_suffix(output_location, u) ==
    IF output_location = None
    THEN [value |-> HISTORICAL_FEATURE_OUTPUT_LOCATION, uuids |-> u]
    ELSE [value |-> output_location[1], uuids |-> u]

output_location_of(output_location, u) ==
    IF output_location = None
    THEN [value |-> path_join(HISTORICAL_FEATURE_OUTPUT_LOCATION, <<uuid4(u)>>),
          uuids |-> u + 1]
    ELSE [value |-> output_location[1], uuids |-> u]

\* feast.staging.entities.table_reference_from_string("project:dataset.table")
table_reference_from_string(table_ref) ==
    LET p == split(table_ref, ":")
        d == split(p[2], ".")
    IN  [project |-> p[1][1], dataset_id |-> d[1][1], table_id |-> d[2][1]]

\* feast.staging.entities.stage_entities_to_bq: uploads the entity table into
\* project.dataset and returns a BigQuerySource pointing at the new table
stage_entities_to_bq(entity_source, project, dataset, outcome) ==
    [calls |-> <<Call("stage_entities_to_bq",
                      [project |-> project, dataset |-> dataset])>>,
     error |-> IF outcome = "ok" THEN "" ELSE outcome,
     entity_source |-> BigQuerySource("",
                           <<project, ":", dataset, ".", "entities">>),
     staged |-> <<>>, uuids |-> 0]

\* feast.staging.entities.stage_entities_to_fs: writes the entity table under
\* a fresh path below staging_location and returns a FileSource pointing at it
stage_entities_to_fs(entity_source, staging_location, u, outcome) ==
    LET path == path_join(staging_location, <<uuid4(u)>>)
    IN  [calls |-> <<Call("stage_entities_to_fs",
                          [staging_location |-> staging_location,
                           path |-> path])>>,
         error |-> IF outcome = "ok" THEN "" ELSE outcome,
         entity_source |-> FileSource("", path),
         staged |-> IF outcome = "ok" THEN <<path>> ELSE <<>>,
         uuids |-> u + 1]

is_bigquery(source) == source.type = "BigQuerySource"

last_bigquery_source(feature_sources) ==
    Last(SelectSeq(feature_sources, is_bigquery))

\* [source for source in feature_sources if isinstance(source, BigQuerySource)][0]
first_bigquery_source(feature_sources) ==
    SelectSeq(feature_sources, is_bigquery)[1]

not_staged(entity_source, u) ==
    [calls |-> <<>>, error |-> "", entity_source |-> entity_source,
     staged |-> <<>>, uuids |-> u]

stage_entities_bq_only(entity_source, feature_sources, u, outcome) ==
    IF entity_source.type = "DataFrame"
       /\ \E i \in 1..Len(feature_sources) : is_bigquery(feature_sources[i])
    THEN LET source_ref == table_reference_from_string(
                               first_bigquery_source(feature_sources).ref)
             r == stage_entities_to_bq(entity_source, source_ref.project,
                                       source_ref.dataset_id, outcome)
         IN  [r EXCEPT !.uuids = u]
    ELSE not_staged(entity_source, u)

\* the staging branch: if isinstance(entity_source, pd.DataFrame): ...
stage_entities(entity_source, feature_sources, u, outcome) ==
    IF entity_source.type = "DataFrame"
    THEN IF \E i \in 1..Len(feature_sources) : is_bigquery(feature_sources[i])
         THEN LET source_ref == table_reference_from_string(
                                    first_bigquery_source(feature_sources).ref)
                  r == stage_entities_to_bq(entity_source, source_ref.project,
                                            source_ref.dataset_id, outcome)
              IN  [r EXCEPT !.uuids = u]
         ELSE stage_entities_to_fs(entity_source, SPARK_STAGING_LOCATION, u,
                                   outcome)
    ELSE not_staged(entity_source, u)

\* a retrieval job handed to the job service or to the launcher
Job(explicit, output_location, feature_refs) ==
    [explicit |-> explicit, output_location |-> output_location,
     feature_refs |-> feature_refs]

\* the mode branch of get_historical_features
dispatch_retrieval(c, u, calls, feature_refs, entity_source, feature_tables, explicit, output_location, newstaged, env) ==
    IF _use_job_service
    THEN LET a1 == _job_service(c)
             request == [feature_refs |-> feature_refs,
                         entity_source |-> entity_source,
                         project |-> PROJECT,
                         output_format |-> HISTORICAL_FEATURE_OUTPUT_FORMAT,
                         output_location |-> output_location]
             calls1 == calls \o a1.calls
                         \o <<Rpc("GetHistoricalFeatures", a1.value[1], request)>>
             a2 == _job_service(a1.c)
         IN  IF env.rpc # "ok"
             THEN Outcome(a1.c, u, calls1, Raised(env.rpc),
                          <<Job(explicit, output_location, feature_refs)>>, newstaged)
             ELSE Outcome(a2.c, u, calls1 \o a2.calls,
                          Returned(Handle("RemoteRetrievalJob", a2.value[1])),
                          <<Job(explicit, output_location, feature_refs)>>, newstaged)
    ELSE LET args == [project |-> PROJECT,
                      entity_source |-> entity_source,
                      feature_tables |-> feature_tables,
                      output_format |-> HISTORICAL_FEATURE_OUTPUT_FORMAT,
                      output_path |-> output_location]
             calls1 == Append(calls,
                           Launch("start_historical_feature_retrieval_job", args))
         IN  Outcome(c, u, calls1,
                     IF env.launch = "ok"
                     THEN Returned(Handle("LocalRetrievalJob", 0))
                     ELSE Raised(env.launch),
                     <<Job(explicit, output_location, feature_refs)>>, newstaged)

submit_despite_staging_error(c, calls, st, feature_refs, feature_tables, explicit, output_location, env) ==
    dispatch_retrieval(c, st.uuids, calls \o st.calls, feature_refs,
                       st.entity_source, feature_tables, explicit,
                       output_location, st.staged, env)

\* an exception raised by the staging function leaves the method
submit_staged(c, calls, st, feature_refs, feature_tables, explicit, output_location, env) ==
    IF st.error # ""
    THEN Outcome(c, st.uuids, calls \o st.calls, Raised(st.error), <<>>,
                 st.staged)
    ELSE dispatch_retrieval(c, st.uuids, calls \o st.calls, feature_refs,
                            st.entity_source, feature_tables, explicit,
                            output_location, st.staged, env)

get_historical_features(c, u, feature_refs, entity_source, output_location, env) ==
    LET r == _get_feature_tables_from_feature_refs(feature_refs, PROJECT)
        feature_tables == r.feature_tables
        loc == output_location_of(output_location, u)
        feature_sources == [i \in 1..Len(feature_tables) |->
                               feature_tables[i].batch_source]
        st == stage_entities(entity_source, feature_sources, loc.uuids,
                             env.staging)
    IN  IF r.error # ""
        THEN Outcome(c, u, r.calls, Raised(r.error), <<>>, <<>>)
        ELSE IF ~all_created_timestamp_column(feature_tables)
        THEN Outcome(c, u, r.calls, Raised("AssertionError"), <<>>, <<>>)
        ELSE submit_staged(c, r.calls, st, feature_refs, feature_tables,
                           output_location # None, loc.value, env)

----------------------------------------------------------------------------
(* Client.get_historical_features_df *)

get_historical_features_df(c, u, feature_refs, entity_source, env) ==
    LET r == _get_feature_tables_from_feature_refs(feature_refs, PROJECT)
        args == [project |-> PROJECT, entity_source |-> entity_source,
                 feature_tables |-> r.feature_tables]
    IN  IF r.error # ""
        THEN Outcome(c, u, r.calls, Raised(r.error), <<>>, <<>>)
        ELSE Outcome(c, u,
                 Append(r.calls,
                     Launch("start_historical_feature_retrieval_spark_session",
                            args)),
                 IF env.launch = "ok"
                 THEN Returned(Handle("SparkDataFrame", 0))
                 ELSE Raised(env.launch),
                 <<>>, <<>>)

----------------------------------------------------------------------------
(* Client.start_offline_to_online_ingestion *)

start_offline_to_online_ingestion(c, u, feature_table, start, end, env) ==
    IF ~_use_job_service
    THEN Outcome(c, u,
             <<Launch("start_offline_to_online_ingestion",
                      [project |-> PROJECT, feature_table |-> feature_table,
                       start |-> start, end |-> end])>>,
             IF env.launch = "ok"
             THEN Returned(Handle("LocalBatchIngestionJob", 0))
             ELSE Raised(env.launch),
             <<>>, <<>>)
    ELSE LET request == [project |-> PROJECT, table_name |-> feature_table.name,
                         start_date |-> start, end_date |-> end]
             a1 == _job_service(c)
             calls1 == a1.calls \o <<Rpc("StartOfflineToOnlineIngestionJob",
                                         a1.value[1], request)>>
             a2 == _job_service(a1.c)
         IN  IF env.rpc # "ok"
             THEN Outcome(a1.c, u, calls1, Raised(env.rpc), <<>>, <<>>)
             ELSE Outcome(a2.c, u, calls1 \o a2.calls,
                          Returned(Handle("RemoteBatchIngestionJob",
                                          a2.value[1])),
                          <<>>, <<>>)

----------------------------------------------------------------------------
(* Client.start_stream_to_online_ingestion *)

start_stream_to_online_ingestion(c, u, feature_table, extra_jars, project, env) ==
    IF ~_use_job_service
    THEN Outcome(c, u,
             <<Launch("start_stream_to_online_ingestion",
                      [project |-> IF Truthy(project) THEN project[1]
                                   ELSE PROJECT,
                       feature_table |-> feature_table,
                       extra_jars |-> IF extra_jars = None THEN <<>>
                                      ELSE extra_jars[1]])>>,
             IF env.launch = "ok"
             THEN Returned(Handle("LocalStreamIngestionJob", 0))
             ELSE Raised(env.launch),
             <<>>, <<>>)
    ELSE LET request == [project |-> PROJECT, table_name |-> feature_table.name]
             a1 == _job_service(c)
             calls1 == a1.calls \o <<Rpc("StartStreamToOnlineIngestionJob",
                                         a1.value[1], request)>>
             a2 == _job_service(a1.c)
         IN  IF env.rpc # "ok"
             THEN Outcome(a1.c, u, calls1, Raised(env.rpc), <<>>, <<>>)
             ELSE Outcome(a2.c, u, calls1 \o a2.calls,
                          Returned(Handle("RemoteStreamIngestionJob",
                                          a2.value[1])),
                          <<>>, <<>>)

----------------------------------------------------------------------------
(* Client.list_jobs and Client.get_job_by_id *)

\* feast_spark.remote_job.get_remote_job_from_proto: the handle variant is
\* picked by the descriptor's job type
get_remote_job_from_proto(stub, job) ==
    Handle(CASE job = "HISTORICAL_RETRIEVAL_JOB" -> "RemoteRetrievalJob"
             [] job = "BATCH_INGESTION_JOB" -> "RemoteBatchIngestionJob"
             [] OTHER -> "RemoteStreamIngestionJob",
           stub)

\* the list comprehension: one read of self._job_service per descriptor
RECURSIVE remote_jobs_from_protos(_, _, _, _)
remote_jobs_from_protos(c, protos, calls, handles) ==
    IF protos = <<>>
    THEN [c |-> c, calls |-> calls, handles |-> handles]
    ELSE LET a == _job_service(c)
         IN  remote_jobs_from_protos(a.c, Tail(protos), calls \o a.calls,
                 Append(handles,
                        get_remote_job_from_proto(a.value[1], Head(protos))))

list_jobs(c, u, include_terminated, table_name, env) ==
    IF ~_use_job_service
    THEN Outcome(c, u,
             <<Launch("list_jobs",
                      [include_terminated |-> include_terminated,
                       table_name |-> table_name])>>,
             IF env.launch = "ok"
             THEN Returned([kind |-> "list", stub |-> 0,
                            items |-> [i \in 1..Len(env.jobs) |->
                                          Handle("LocalJob", 0)]])
             ELSE Raised(env.launch),
             <<>>, <<>>)
    ELSE LET request == [include_terminated |-> include_terminated,
                         table_name |-> table_name]
             a1 == _job_service(c)
             calls1 == a1.calls \o <<Rpc("ListJobs", a1.value[1], request)>>
             hs == remote_jobs_from_protos(a1.c, env.jobs, calls1, <<>>)
         IN  IF env.rpc # "ok"
             THEN Outcome(a1.c, u, calls1, Raised(env.rpc), <<>>, <<>>)
             ELSE Outcome(hs.c, u, hs.calls,
                          Returned([kind |-> "list", stub |-> 0,
                                    items |-> hs.handles]),
                          <<>>, <<>>)

get_job_by_id_with_fallback(c, u, job_id, env) ==
    IF ~_use_job_service
    THEN Outcome(c, u, <<Launch("get_job_by_id", [job_id |-> job_id])>>,
             IF env.launch = "ok" THEN Returned(Handle("LocalJob", 0))
             ELSE Raised(env.launch),
             <<>>, <<>>)
    ELSE LET request == [job_id |-> job_id]
             a1 == _job_service(c)
             calls1 == a1.calls \o <<Rpc("GetJob", a1.value[1], request)>>
             a2 == _job_service(a1.c)
         IN  IF env.rpc # "ok"
             THEN Outcome(a1.c, u,
                      Append(calls1,
                             Launch("get_job_by_id", [job_id |-> job_id])),
                      IF env.launch = "ok" THEN Returned(Handle("LocalJob", 0))
                      ELSE Raised(env.launch),
                      <<>>, <<>>)
             ELSE Outcome(a2.c, u, calls1 \o a2.calls,
                          Returned(get_remote_job_from_proto(a2.value[1],
                                                             env.jobs[1])),
                          <<>>, <<>>)

get_job_by_id(c, u, job_id, env) ==
    IF ~_use_job_service
    THEN Outcome(c, u, <<Launch("get_job_by_id", [job_id |-> job_id])>>,
             IF env.launch = "ok" THEN Returned(Handle("LocalJob", 0))
             ELSE Raised(env.launch),
             <<>>, <<>>)
    ELSE LET request == [job_id |-> job_id]
             a1 == _job_service(c)
             calls1 == a1.calls \o <<Rpc("GetJob", a1.value[1], request)>>
             a2 == _job_service(a1.c)
         IN  IF env.rpc # "ok"
             THEN Outcome(a1.c, u, calls1, Raised(env.rpc), <<>>, <<>>)
             ELSE Outcome(a2.c, u, calls1 \o a2.calls,
                          Returned(get_remote_job_from_proto(a2.value[1],
                                                             env.jobs[1])),
                          <<>>, <<>>)

----------------------------------------------------------------------------
(* The arguments callers pass and the outcomes of the external calls *)

\* the tables a public call asks for, one reference "table:x" per entry
CallTables == {<<>>, <<"f">>, <<"u">>, <<"f", "n">>, <<"n", "g">>,
               <<"g", "h">>, <<"f", "h", "g">>}
CallRefLists == {[i \in 1..Len(ts) |-> <<ts[i], ":", "x">>] : ts \in CallTables}

StagedSources == {FileSource("", <<"gs", "/", "e">>)}
EntitySources == {DataFrame} \cup StagedSources
OutputLocations == {None, Some(<<"mine">>)}
Projects == {None, Some(""), Some("proj1"), Some("proj2")}
ExtraJars == {None, Some(<<"a.jar">>)}
Windows == {<<1, 2>>}
IngestedTables == {ft \in Registry : ft.name \in {<<"f">>, <<"g">>}}
JobIds == {"job1", "unknown-id"}
JobTypes == {"HISTORICAL_RETRIEVAL_JOB", "BATCH_INGESTION_JOB",
             "STREAM_INGESTION_JOB"}

\* at most one external call of a method fails
Faults == {"ok", "StagingError"} \cup RpcErrors

Env(fault, protos) ==
    [staging |-> IF fault = "StagingError" THEN fault ELSE "ok",
     rpc |-> IF fault \in RpcErrors \cup {"NotFoundError"} THEN fault ELSE "ok",
     launch |-> IF fault \in RpcErrors THEN "SparkJobFailure"
                ELSE IF fault = "NotFoundError" THEN fault ELSE "ok",
     jobs |-> protos]

\* the state after a method has run: the whole handler in one step
Apply(op, args, o) ==
    /\ ncalls < MaxCalls
    /\ ncalls' = ncalls + 1
    /\ _job_service_stub' = o.c.stub
    /\ _job_service_service_stub' = o.c.svc
    /\ channels' = o.c.channels
    /\ uuids' = o.uuids
    /\ jobs' = jobs \o o.jobs
    /\ staged' = staged \o o.staged
    /\ last' = [op |-> op, args |-> args, calls |-> o.calls,
                result |-> o.result]
    /\ UNCHANGED job_service_url

Args(feature_refs, entity_source, output_location, project, fault) ==
    [feature_refs |-> feature_refs, entity_source |-> entity_source,
     output_location |-> output_location, project |-> project,
     fault |-> fault]

GetHistoricalFeatures ==
    \E feature_refs \in CallRefLists, entity_source \in EntitySources,
       output_location \in OutputLocations, fault \in Faults :
        /\ fault = "StagingError" => entity_source = DataFrame
        /\ Apply("get_historical_features",
                 Args(feature_refs, entity_source, output_location, None,
                      fault),
                 get_historical_features(Self, uuids, feature_refs,
                     entity_source, output_location, Env(fault, <<>>)))

GetHistoricalFeaturesDf ==
    \E feature_refs \in CallRefLists, entity_source \in StagedSources,
       fault \in {"ok", "TransportError"} :
        Apply("get_historical_features_df",
              Args(feature_refs, entity_source, None, None, fault),
              get_historical_features_df(Self, uuids, feature_refs,
                  entity_source, Env(fault, <<>>)))

StartOfflineToOnlineIngestion ==
    \E feature_table \in IngestedTables, w \in Windows, fault \in RpcOutcomes :
        Apply("start_offline_to_online_ingestion",
              Args(<<>>, DataFrame, None, None, fault),
              start_offline_to_online_ingestion(Self, uuids, feature_table,
                  w[1], w[2], Env(fault, <<>>)))

StartStreamToOnlineIngestion ==
    \E feature_table \in IngestedTables, extra_jars \in ExtraJars,
       project \in Projects, fault \in {"ok", "TransportError"} :
        Apply("start_stream_to_online_ingestion",
              Args(<<>>, DataFrame, None, project, fault),
              start_stream_to_online_ingestion(Self, uuids, feature_table,
                  extra_jars, project, Env(fault, <<>>)))

ListJobs ==
    \E include_terminated \in BOOLEAN, table_name \in {Some(<<"f">>)},
       protos \in SeqsUpTo(JobTypes, MaxJobs), fault \in {"ok", "Timeout"} :
        Apply("list_jobs",
              Args(<<>>, DataFrame, None, None, fault),
              list_jobs(Self, uuids, include_terminated, table_name,
                  Env(fault, protos)))

\* an unknown id is answered with NotFoundError, in either mode
GetJobById ==
    \E job_id \in JobIds, job \in JobTypes,
       fault \in RpcOutcomes \cup {"NotFoundError"} :
        /\ (job_id = "unknown-id") => (fault = "NotFoundError")
        /\ (job_id # "unknown-id") => (fault # "NotFoundError")
        /\ Apply("get_job_by_id",
                 Args(<<>>, DataFrame, None, None, fault),
                 get_job_by_id(Self, uuids, job_id, Env(fault, <<job>>)))

Next ==
    \/ GetHistoricalFeatures
    \/ GetHistoricalFeaturesDf
    \/ StartOfflineToOnlineIngestion
    \/ StartStreamToOnlineIngestion
    \/ ListJobs
    \/ GetJobById

Spec == Init /\ [][Next]_vars

----------------------------------------------------------------------------
(* What the claims below read off a state *)

Remote == job_service_url # None

CallIdx(fn) == {i \in 1..Len(last.calls) : last.calls[i].fn = fn}
Count(fn) == Cardinality(CallIdx(fn))

HasReturned == last.result.status = "returned"

DispatchOps == {"get_historical_features", "start_offline_to_online_ingestion",
                "start_stream_to_online_ingestion", "list_jobs",
                "get_job_by_id"}

\* the registry's view of the tables a call names, read off the references
Declared(ref) == \E ft \in Registry : ft.name = <<ref[1]>>
SourceOf(ref) == (CHOOSE ft \in Registry : ft.name = <<ref[1]>>).batch_source

Retrieval == last.op = "get_historical_features"
Refs == last.args.feature_refs
AllDeclared == \A i \in 1..Len(Refs) : Declared(Refs[i])
AllCreated ==
    \A i \in 1..Len(Refs) : SourceOf(Refs[i]).created_timestamp_column # ""
BigQueryRefs ==
    {i \in 1..Len(Refs) : SourceOf(Refs[i]).type = "BigQuerySource"}

\* a retrieval of an in-memory entity table that gets as far as staging
StagesDataFrame ==
    /\ Retrieval
    /\ last.args.entity_source.type = "DataFrame"
    /\ AllDeclared
    /\ AllCreated

\* the entity source and output location a retrieval handed to the job
SubmittedEntitySources ==
    {last.calls[i].arg.request.entity_source : i \in CallIdx("rpc")}
        \cup {last.calls[i].arg.args.entity_source : i \in CallIdx("launcher")}
SubmittedOutputLocations ==
    {last.calls[i].arg.request.output_location : i \in CallIdx("rpc")}
        \cup {last.calls[i].arg.args.output_path : i \in CallIdx("launcher")}

----------------------------------------------------------------------------
(* C1 as stated: every one of the six operations that completes has issued *)
(* a job-service RPC and no launcher call when the job-service URL is set, *)
(* and a launcher call and no RPC when it is not.                          *)
ModeSelectionAllSix ==
    (last.op \in DispatchOps \cup {"get_historical_features_df"}
     /\ HasReturned) =>
        IF Remote
        THEN Count("rpc") >= 1 /\ Count("launcher") = 0
        ELSE Count("launcher") >= 1 /\ Count("rpc") = 0

(* C1 amended: the five dispatching operations never call the launcher in  *)
(* remote mode and never issue an RPC in local mode, and one that returns  *)
(* has issued the RPC (remote) or called the launcher (local);             *)
(* get_historical_features_df calls the launcher in both modes and never   *)
(* issues an RPC.                                                          *)
ModeSelection ==
    /\ last.op \in DispatchOps =>
          IF Remote
          THEN Count("launcher") = 0 /\ (HasReturned => Count("rpc") >= 1)
          ELSE /\ Count("rpc") = 0
               /\ Count("create_grpc_channel") = 0
               /\ (HasReturned => Count("launcher") >= 1)
    /\ last.op = "get_historical_features_df" =>
          Count("rpc") = 0 /\ (HasReturned => Count("launcher") = 1)

ModeSelectionWitness ==
    /\ Remote
    /\ Retrieval
    /\ HasReturned
    /\ last.args.entity_source.type = "DataFrame"
    /\ Count("rpc") = 1

----------------------------------------------------------------------------
(* C2: a retrieval whose resolved tables include a batch source without a  *)
(* creation-timestamp column fails with the assertion error, and has made  *)
(* no staging call, no channel, no RPC and no launcher call.               *)
CreatedTimestampPrecondition ==
    (Retrieval /\ AllDeclared /\ ~AllCreated) =>
        /\ last.result = Raised("AssertionError")
        /\ Count("stage_entities_to_bq") = 0
        /\ Count("stage_entities_to_fs") = 0
        /\ Count("create_grpc_channel") = 0
        /\ Count("rpc") = 0
        /\ Count("launcher") = 0

\* one table with the column and one without, an entity table to stage
CreatedTimestampPreconditionWitness ==
    /\ Retrieval
    /\ Remote
    /\ Refs = <<<<"f", ":", "x">>, <<"n", ":", "x">>>>
    /\ last.args.entity_source.type = "DataFrame"
    /\ last.result.error = "AssertionError"

----------------------------------------------------------------------------
(* C4: an in-memory entity table, with a BigQuery source among the         *)
(* resolved tables, is staged to BigQuery in the project and dataset of    *)
(* the first BigQuery source in table order, never to the file location,   *)
(* and the job is given the staged BigQuery source.                        *)
FirstBigQueryRef ==
    Refs[CHOOSE i \in BigQueryRefs : \A j \in BigQueryRefs : i <= j]

StagedToFirstBigQuery ==
    (StagesDataFrame /\ BigQueryRefs # {}) =>
        LET table_ref == SourceOf(FirstBigQueryRef).ref
            project == table_ref[1]
            dataset == table_ref[3]
        IN  /\ Count("stage_entities_to_bq") = 1
            /\ \A i \in CallIdx("stage_entities_to_bq") :
                   /\ last.calls[i].arg.project = project
                   /\ last.calls[i].arg.dataset = dataset
            /\ Count("stage_entities_to_fs") = 0
            /\ \A e \in SubmittedEntitySources :
                   /\ e.type = "BigQuerySource"
                   /\ e.ref[1] = project
                   /\ e.ref[3] = dataset
            /\ (last.args.fault = "ok" => SubmittedEntitySources # {})

\* the first BigQuery source is neither the first table nor the last
StagedToFirstBigQueryWitness ==
    /\ StagesDataFrame
    /\ Refs = <<<<"f", ":", "x">>, <<"h", ":", "x">>, <<"g", ":", "x">>>>
    /\ HasReturned
    /\ Count("stage_entities_to_bq") = 1

----------------------------------------------------------------------------
(* C5: an in-memory entity table, with no BigQuery source among the        *)
(* resolved tables, is staged exactly once, to the configured file staging *)
(* location, never to BigQuery; and the paths staged so far are pairwise   *)
(* distinct.                                                               *)
StagedToFreshFile ==
    /\ (StagesDataFrame /\ BigQueryRefs = {}) =>
          /\ Count("stage_entities_to_fs") = 1
          /\ \A i \in CallIdx("stage_entities_to_fs") :
                 last.calls[i].arg.staging_location = SPARK_STAGING_LOCATION
          /\ Count("stage_entities_to_bq") = 0
          /\ \A e \in SubmittedEntitySources :
                 \E i \in CallIdx("stage_entities_to_fs") :
                     e = FileSource("", last.calls[i].arg.path)
    /\ \A i, j \in 1..Len(staged) : i # j => staged[i] # staged[j]

\* the second of two file stagings
StagedToFreshFileWitness ==
    /\ StagesDataFrame
    /\ BigQueryRefs = {}
    /\ HasReturned
    /\ Len(staged) = 2

----------------------------------------------------------------------------
(* C6: the output locations of the retrievals submitted without an         *)
(* explicit output_location are pairwise distinct, each the configured     *)
(* base location joined with one generated suffix; an explicit             *)
(* output_location is submitted unchanged.                                 *)
OutputLocationsDistinct ==
    /\ \A i, j \in 1..Len(jobs) :
          (i # j /\ ~jobs[i].explicit /\ ~jobs[j].explicit) =>
              jobs[i].output_location # jobs[j].output_location
    /\ \A i \in 1..Len(jobs) :
          ~jobs[i].explicit =>
              /\ Len(jobs[i].output_location) = 3
              /\ SubSeq(jobs[i].output_location, 1, 2)
                     = HISTORICAL_FEATURE_OUTPUT_LOCATION \o <<"/">>
    /\ (Retrieval /\ last.args.output_location # None) =>
          \A o \in SubmittedOutputLocations :
              o = last.args.output_location[1]
    /\ (Retrieval /\ last.args.output_location = None) =>
          \A o \in SubmittedOutputLocations :
              Len(jobs) > 0 /\ o = jobs[Len(jobs)].output_location

\* the same references submitted twice without an output location
OutputLocationsDistinctWitness ==
    /\ Len(jobs) = 2
    /\ ~jobs[1].explicit
    /\ ~jobs[2].explicit
    /\ jobs[1].feature_refs = jobs[2].feature_refs
    /\ Retrieval
    /\ HasReturned

----------------------------------------------------------------------------
(* C7: when staging the in-memory entity table fails, the retrieval raises *)
(* the staging error and neither issues the RPC nor calls the launcher.    *)
StagingFailureStopsSubmission ==
    (StagesDataFrame /\ last.args.fault = "StagingError") =>
        /\ Count("stage_entities_to_bq") + Count("stage_entities_to_fs") = 1
        /\ last.result = Raised("StagingError")
        /\ Count("rpc") = 0
        /\ Count("launcher") = 0

StagingFailureStopsSubmissionWitness ==
    /\ StagesDataFrame
    /\ last.args.fault = "StagingError"
    /\ Remote
    /\ BigQueryRefs # {}
    /\ last.result.status = "raised"

----------------------------------------------------------------------------
(* C8: in remote mode an operation whose RPC fails has issued that RPC     *)
(* exactly once, raises the RPC's error, returns no handle and makes no    *)
(* launcher call.                                                          *)
RpcFailed ==
    /\ Remote
    /\ last.op \in DispatchOps
    /\ last.args.fault \in RpcErrors \cup {"NotFoundError"}
    /\ Count("rpc") >= 1

RpcFailureSurfaced ==
    RpcFailed =>
        /\ Count("rpc") = 1
        /\ last.result = Raised(last.args.fault)
        /\ Count("launcher") = 0

RpcFailureSurfacedWitness ==
    /\ RpcFailed
    /\ last.op = "get_job_by_id"
    /\ last.args.fault = "NotFoundError"

----------------------------------------------------------------------------
(* C9: the channel and stub are built at most once per Client, every       *)
(* handle returned carries that one stub, and in local mode no channel is  *)
(* ever built.                                                             *)
ReturnedHandles ==
    IF ~HasReturned THEN {}
    ELSE IF last.result.value.kind = "list"
    THEN {last.result.value.items[i] : i \in 1..Len(last.result.value.items)}
    ELSE {last.result.value}

StubBuiltOnce ==
    IF Remote
    THEN /\ channels <= 1
         /\ \A i \in CallIdx("rpc") : last.calls[i].arg.stub = 1
         /\ \A h \in ReturnedHandles :
                last.op \in DispatchOps => h.stub = 1
    ELSE channels = 0

----------------------------------------------------------------------------
(* C10: start_stream_to_online_ingestion submits the job under the         *)
(* caller's project when one is given and under the client's project       *)
(* otherwise, in local and in remote mode alike.                           *)
SubmittedProjects ==
    {last.calls[i].arg.request.project : i \in CallIdx("rpc")}
        \cup {last.calls[i].arg.args.project : i \in CallIdx("launcher")}

StreamProjectSameInBothModes ==
    last.op = "start_stream_to_online_ingestion" =>
        \A p \in SubmittedProjects :
            p = IF Truthy(last.args.project) THEN last.args.project[1]
                ELSE PROJECT

====
